---- MODULE Spec2Model ----
(***************************************************************************)
(* Model of the Blackjack round simulator of src/game.py: the Shoe, the    *)
(* HandState arithmetic, the Hi-Lo count and the round loop of             *)
(* simulate_rounds, one action per step of the loop.                       *)
(*                                                                         *)
(* Numbers.  running_count holds integral values only, so it is an         *)
(* integer.  The true count is the quotient running_count /                *)
(* decks_remaining(); it is kept as an exact fraction [num, den] with      *)
(* den > 0.  Every comparison the code makes on it (tc <= 0, int(tc)) has  *)
(* the same outcome on the fraction as on the double: the quotients that   *)
(* are whole numbers 1..4 have a denominator len/52 that is exact in       *)
(* binary.  Fields rounded with round(x, 3) are integers in thousandths.   *)
(* Bets are integers (base_bet is drawn from whole amounts).               *)
(***************************************************************************)
EXTENDS Integers, Sequences, FiniteSets, TLC

(* ---------------- bounds of the exploration ---------------- *)
\* largest value of the `rounds` argument
MaxRounds == 9
\* number of final rounds of a run in which the decision policy answers
\* arbitrarily; in the rounds before, it answers as simplest_strategy
FreeRounds == 2
\* longest card sequence given to HandState.value in SpecValue
MaxHandLen == 4
\* the most rounds of a call that is made twice
ReplayRounds == 3
\* the most rounds of a call in the runs checked for termination
FairRounds == 2

(* ---------------- inputs of simulate_rounds ---------------- *)
Seeds == {350, 2856, 5125, 9290, 9985}
DeckCounts == {1, 2}
BaseBets == {10}
BetModes == {"fixed", "hi-lo"}
\* what a decision policy may answer; "surrender" stands for any string
\* outside hit/stand/double/split
Answers == {"hit", "stand", "double", "split", "surrender"}
strategy_name == "policy"
\* the names of STRATEGIES
Catalog == {"simplest", "random", "basic"}

(* ---------------- card definitions ---------------- *)
RANKS == <<"A", "2", "3", "4", "5", "6", "7", "8", "9", "10", "J", "Q", "K">>

RankSet == {RANKS[i] : i \in 1..Len(RANKS)}

VALUES ==
  [r \in RankSet |->
     CASE r = "A" -> 11
       [] r = "2" -> 2
       [] r = "3" -> 3
       [] r = "4" -> 4
       [] r = "5" -> 5
       [] r = "6" -> 6
       [] r = "7" -> 7
       [] r = "8" -> 8
       [] r = "9" -> 9
       [] OTHER -> 10]

\* lines 40-46 with the Ace counted as neutral
hi_lo_value_ace_neutral(rank) ==
  IF rank \in {"2", "3", "4", "5", "6"} THEN 1
  ELSE IF rank \in {"10", "J", "Q", "K"} THEN -1
  ELSE 0

hi_lo_value(rank) ==
  IF rank \in {"2", "3", "4", "5", "6"} THEN 1
  ELSE IF rank \in {"7", "8", "9"} THEN 0
  ELSE -1

\* copies of each rank per deck loaded by Shoe.reshuffle
CopiesPerRank == 4
\* cards of one deck, the divisor of Shoe.decks_remaining
DeckSize == 52

\* lines 68-71 with the ranks taken round-robin from the first twelve
OrderedLoad_no_king(n) ==
  [i \in 1..(n * Len(RANKS) * CopiesPerRank) |->
     RANKS[((i - 1) % (Len(RANKS) - 1)) + 1]]

\* the list Shoe.reshuffle builds before shuffling: for each deck, for each
\* rank in RANKS order, CopiesPerRank copies
OrderedLoad(n) ==
  [i \in 1..(n * Len(RANKS) * CopiesPerRank) |->
     RANKS[(((i - 1) % (Len(RANKS) * CopiesPerRank)) \div CopiesPerRank) + 1]]

\* the permutation random.Random(s).shuffle applies, at its k-th call, to a
\* list of n * 52 elements (position i of the result holds element perm[i]
\* of the input), as CPython's Mersenne Twister produces it
ShufflePerm(s, n, k) ==
  CASE s = 350 /\ n = 1 /\ k = 1 ->
      <<
         28, 50, 8, 11, 34, 1, 44, 9, 33, 4, 7, 2, 35, 36, 29, 46, 40, 27, 6, 41, 37, 18, 48, 14, 39, 22,
         5, 15, 49, 45, 20, 31, 3, 25, 52, 19, 13, 16, 30, 47, 10, 32, 38, 51, 17, 23, 42, 21, 43, 26, 12, 24
      >>
    [] s = 350 /\ n = 1 /\ k = 2 ->
      <<
         21, 15, 49, 20, 43, 7, 34, 11, 9, 2, 22, 40, 32, 47, 8, 30, 37, 13, 46, 5, 44, 35, 12, 23, 51, 29,
         18, 14, 52, 26, 10, 45, 27, 42, 36, 38, 24, 6, 31, 41, 39, 33, 19, 3, 17, 25, 50, 48, 4, 28, 1, 16
      >>
    [] s = 350 /\ n = 1 /\ k = 3 ->
      <<
         24, 45, 30, 26, 7, 13, 15, 39, 36, 52, 40, 43, 20, 11, 10, 42, 33, 18, 44, 31, 28, 49, 25, 21, 16, 47,
         48, 23, 34, 29, 37, 27, 5, 3, 41, 2, 50, 6, 32, 17, 19, 35, 46, 51, 4, 12, 38, 8, 1, 9, 22, 14
      >>
    [] s = 350 /\ n = 2 /\ k = 1 ->
      <<
         94, 32, 44, 75, 29, 7, 99, 11, 71, 2, 21, 30, 42, 15, 8, 22, 83, 35, 82, 40, 85, 57, 73, 56, 51, 18,
         14, 81, 67, 74, 64, 27, 72, 36, 65, 6, 87, 96, 69, 3, 17, 77, 78, 53, 28, 1, 61, 102, 34, 59, 66, 26,
         4, 16, 10, 97, 12, 98, 13, 100, 54, 58, 45, 9, 48, 43, 101, 39, 19, 95, 37, 49, 70, 55, 80, 90, 88, 92,
         68, 79, 62, 5, 50, 104, 38, 25, 31, 60, 93, 20, 89, 91, 63, 76, 23, 33, 46, 84, 41, 86, 52, 24, 103, 47
      >>
    [] s = 350 /\ n = 2 /\ k = 2 ->
      <<
         39, 47, 59, 2, 61, 92, 101, 84, 80, 72, 100, 42, 86, 14, 35, 103, 56, 41, 79, 12, 65, 6, 94, 57, 25, 104,
         58, 60, 26, 15, 13, 74, 49, 69, 48, 62, 67, 55, 96, 45, 50, 21, 82, 81, 51, 90, 87, 8, 30, 52, 97, 40,
         18, 31, 19, 27, 53, 73, 29, 93, 66, 22, 46, 95, 89, 99, 9, 75, 36, 68, 88, 20, 71, 77, 83, 78, 3, 91,
         64, 98, 32, 85, 34, 54, 10, 5, 37, 4, 102, 11, 63, 33, 38, 70, 24, 44, 7, 23, 76, 16, 1, 17, 43, 28
      >>
    [] s = 2856 /\ n = 1 /\ k = 1 ->
      <<
         25, 20, 45, 16, 3, 1, 19, 51, 50, 24, 33, 22, 36, 17, 23, 21, 41, 26, 14, 11, 9, 42, 46, 38, 31, 18,
         32, 8, 30, 34, 44, 15, 28, 13, 37, 52, 4, 2, 49, 29, 10, 6, 12, 27, 43, 48, 7, 47, 39, 5, 35, 40
      >>
    [] s = 2856 /\ n = 1 /\ k = 2 ->
      <<
         12, 31, 5, 6, 29, 47, 32, 1, 26, 37, 2, 13, 52, 18, 25, 36, 22, 34, 7, 4, 41, 19, 10, 43, 30, 35,
         17, 27, 9, 28, 39, 21, 15, 45, 16, 44, 40, 3, 46, 24, 50, 49, 23, 11, 33, 48, 14, 51, 20, 38, 42, 8
      >>
    [] s = 2856 /\ n = 1 /\ k = 3 ->
      <<
         1, 17, 37, 49, 14, 18, 6, 27, 44, 11, 20, 23, 13, 52, 36, 34, 31, 22, 28, 4, 43, 51, 10, 42, 25, 15,
         21, 41, 19, 12, 16, 32, 26, 8, 46, 24, 35, 3, 50, 9, 47, 39, 45, 7, 29, 38, 5, 33, 40, 48, 2, 30
      >>
    [] s = 2856 /\ n = 2 /\ k = 1 ->
      <<
         84, 28, 60, 6, 102, 73, 86, 1, 13, 12, 34, 81, 2, 32, 68, 71, 75, 49, 63, 39, 76, 92, 74, 7, 4, 40,
         19, 25, 10, 45, 66, 31, 17, 21, 15, 47, 16, 67, 48, 97, 44, 24, 52, 83, 95, 61, 33, 82, 62, 72, 80, 38,
         42, 78, 90, 55, 87, 18, 100, 91, 65, 98, 43, 69, 94, 64, 46, 96, 36, 37, 104, 53, 41, 35, 22, 27, 5, 88,
         103, 59, 29, 50, 51, 30, 56, 26, 89, 57, 8, 3, 101, 58, 20, 11, 23, 54, 85, 99, 14, 93, 77, 9, 70, 79
      >>
    [] s = 2856 /\ n = 2 /\ k = 2 ->
      <<
         5, 3, 18, 88, 23, 38, 50, 101, 33, 22, 87, 25, 61, 24, 7, 54, 80, 8, 70, 92, 75, 36, 83, 1, 47, 26,
         16, 55, 34, 103, 41, 2, 93, 14, 20, 67, 46, 51, 37, 31, 84, 44, 42, 68, 28, 90, 71, 11, 99, 65, 21, 85,
         81, 104, 94, 39, 49, 60, 30, 12, 53, 56, 43, 35, 82, 29, 27, 32, 62, 78, 19, 102, 86, 40, 98, 58, 91, 73,
         45, 63, 64, 52, 72, 15, 74, 89, 48, 69, 6, 100, 17, 10, 77, 96, 13, 57, 76, 97, 9, 66, 79, 95, 4, 59
      >>
    [] s = 5125 /\ n = 1 /\ k = 1 ->
      <<
         49, 21, 11, 28, 23, 35, 38, 31, 14, 45, 30, 10, 20, 52, 44, 27, 41, 37, 16, 40, 22, 7, 36, 6, 43, 2,
         26, 25, 24, 5, 8, 32, 12, 9, 48, 47, 17, 34, 1, 42, 39, 33, 4, 50, 46, 3, 18, 51, 29, 19, 13, 15
      >>
    [] s = 5125 /\ n = 1 /\ k = 2 ->
      <<
         52, 46, 27, 41, 1, 47, 38, 17, 39, 28, 34, 25, 7, 33, 16, 20, 43, 9, 22, 6, 37, 50, 42, 5, 26, 24,
         10, 44, 35, 48, 23, 15, 36, 45, 30, 51, 31, 2, 32, 12, 4, 14, 19, 13, 18, 11, 40, 8, 29, 3, 49, 21
      >>
    [] s = 5125 /\ n = 1 /\ k = 3 ->
      <<
         47, 1, 40, 21, 9, 17, 6, 24, 29, 35, 16, 39, 32, 26, 12, 44, 7, 13, 15, 43, 4, 18, 42, 36, 50, 19,
         46, 45, 51, 25, 5, 8, 23, 37, 31, 49, 3, 10, 20, 52, 30, 27, 38, 33, 28, 14, 48, 34, 22, 2, 41, 11
      >>
    [] s = 5125 /\ n = 2 /\ k = 1 ->
      <<
         39, 1, 33, 16, 41, 88, 44, 89, 50, 7, 54, 75, 79, 99, 96, 9, 20, 78, 56, 72, 45, 97, 58, 42, 74, 28,
         23, 46, 27, 15, 83, 61, 80, 47, 59, 55, 32, 12, 69, 93, 19, 53, 101, 92, 40, 60, 104, 3, 76, 22, 43, 52,
         82, 73, 91, 49, 84, 63, 31, 67, 51, 10, 62, 102, 13, 11, 95, 70, 4, 90, 86, 48, 85, 100, 87, 21, 14, 6,
         17, 30, 64, 65, 24, 18, 103, 81, 71, 35, 34, 68, 2, 94, 77, 66, 8, 38, 98, 5, 36, 26, 57, 37, 25, 29
      >>
    [] s = 5125 /\ n = 2 /\ k = 2 ->
      <<
         78, 75, 47, 84, 57, 31, 1, 77, 70, 37, 4, 95, 99, 98, 52, 9, 35, 24, 49, 50, 82, 12, 42, 29, 18, 33,
         14, 65, 102, 67, 45, 10, 23, 16, 88, 48, 34, 91, 79, 61, 63, 22, 87, 80, 7, 27, 17, 92, 25, 36, 2, 56,
         69, 58, 30, 94, 104, 11, 44, 41, 32, 8, 83, 38, 64, 93, 101, 51, 89, 39, 13, 71, 90, 6, 73, 103, 19, 15,
         72, 46, 85, 74, 62, 97, 5, 20, 40, 100, 60, 53, 76, 66, 55, 28, 96, 68, 43, 3, 81, 21, 26, 86, 54, 59
      >>
    [] s = 9290 /\ n = 1 /\ k = 1 ->
      <<
         35, 33, 23, 38, 50, 29, 17, 31, 15, 30, 39, 4, 40, 47, 2, 20, 44, 43, 1, 32, 37, 25, 28, 11, 13, 3,
         45, 48, 6, 9, 19, 46, 7, 22, 52, 42, 10, 41, 34, 8, 36, 24, 26, 18, 21, 12, 14, 27, 51, 49, 5, 16
      >>
    [] s = 9290 /\ n = 1 /\ k = 2 ->
      <<
         14, 21, 43, 29, 52, 51, 33, 10, 9, 11, 16, 7, 48, 19, 39, 49, 26, 47, 13, 40, 37, 15, 1, 45, 18, 27,
         34, 3, 25, 46, 24, 8, 44, 30, 28, 5, 20, 31, 2, 6, 50, 12, 23, 4, 41, 36, 35, 32, 42, 38, 22, 17
      >>
    [] s = 9290 /\ n = 1 /\ k = 3 ->
      <<
         29, 18, 16, 10, 50, 52, 19, 46, 15, 36, 17, 4, 33, 20, 13, 39, 51, 3, 45, 22, 41, 5, 23, 35, 37, 47,
         8, 34, 1, 9, 7, 48, 11, 42, 25, 27, 32, 30, 40, 2, 24, 49, 12, 43, 14, 31, 28, 21, 38, 44, 6, 26
      >>
    [] s = 9290 /\ n = 2 /\ k = 1 ->
      <<
         57, 65, 27, 37, 89, 46, 48, 61, 56, 93, 29, 33, 14, 92, 68, 26, 76, 66, 78, 3, 69, 21, 100, 39, 58, 15,
         73, 102, 18, 40, 85, 52, 9, 64, 82, 30, 99, 5, 63, 104, 2, 6, 55, 90, 70, 80, 4, 77, 81, 96, 86, 97,
         75, 95, 53, 22, 59, 91, 17, 7, 34, 44, 20, 8, 79, 62, 25, 60, 84, 45, 12, 101, 1, 87, 38, 50, 41, 49,
         11, 83, 36, 74, 23, 13, 43, 32, 94, 19, 88, 71, 67, 16, 72, 47, 51, 35, 42, 24, 28, 54, 103, 98, 10, 31
      >>
    [] s = 9290 /\ n = 2 /\ k = 2 ->
      <<
         14, 9, 51, 80, 71, 72, 15, 46, 99, 37, 21, 78, 44, 63, 3, 103, 43, 12, 69, 57, 35, 61, 93, 5, 86, 18,
         68, 83, 65, 84, 38, 47, 82, 55, 94, 74, 2, 88, 30, 39, 13, 49, 58, 19, 8, 23, 36, 16, 102, 40, 6, 70,
         97, 26, 73, 91, 25, 79, 67, 66, 95, 90, 29, 89, 104, 100, 98, 45, 32, 77, 7, 96, 10, 53, 17, 20, 34, 31,
         81, 1, 33, 27, 42, 75, 22, 59, 50, 54, 64, 60, 92, 4, 48, 101, 24, 85, 28, 62, 56, 41, 76, 87, 11, 52
      >>
    [] s = 9985 /\ n = 1 /\ k = 1 ->
      <<
         20, 44, 1, 36, 17, 41, 26, 19, 51, 47, 12, 38, 39, 30, 37, 27, 14, 29, 28, 11, 5, 3, 50, 15, 10, 22,
         18, 32, 52, 46, 4, 48, 7, 42, 49, 24, 2, 8, 9, 31, 33, 45, 16, 43, 34, 6, 40, 25, 23, 13, 21, 35
      >>
    [] s = 9985 /\ n = 1 /\ k = 2 ->
      <<
         12, 39, 22, 15, 31, 21, 25, 6, 52, 27, 44, 34, 10, 14, 51, 48, 47, 43, 29, 16, 17, 42, 32, 30, 7, 13,
         38, 24, 26, 50, 3, 35, 5, 33, 18, 46, 23, 40, 20, 19, 9, 45, 4, 1, 37, 49, 28, 2, 11, 36, 41, 8
      >>
    [] s = 9985 /\ n = 1 /\ k = 3 ->
      <<
         4, 23, 48, 11, 8, 2, 36, 39, 22, 41, 16, 3, 25, 51, 29, 34, 7, 5, 12, 38, 40, 32, 18, 50, 9, 15,
         21, 52, 20, 35, 37, 17, 10, 44, 42, 30, 47, 43, 26, 14, 46, 24, 13, 1, 19, 31, 28, 33, 6, 27, 45, 49
      >>
    [] s = 9985 /\ n = 2 /\ k = 1 ->
      <<
         92, 31, 60, 33, 71, 48, 73, 5, 30, 57, 51, 6, 93, 76, 27, 88, 26, 29, 7, 56, 34, 64, 102, 43, 3, 89,
         79, 38, 104, 24, 35, 42, 53, 101, 59, 55, 74, 90, 87, 1, 37, 85, 28, 2, 11, 36, 78, 8, 10, 98, 14, 49,
         23, 22, 19, 95, 77, 52, 20, 15, 62, 96, 94, 63, 44, 99, 70, 65, 54, 75, 39, 103, 18, 9, 81, 58, 40, 84,
         21, 82, 100, 13, 67, 72, 45, 47, 4, 16, 17, 61, 66, 83, 97, 32, 91, 86, 68, 12, 80, 50, 46, 25, 41, 69
      >>
    [] s = 9985 /\ n = 2 /\ k = 2 ->
      <<
         87, 45, 73, 30, 19, 93, 43, 70, 89, 3, 31, 83, 67, 80, 13, 38, 53, 36, 34, 95, 100, 77, 68, 7, 11, 16,
         81, 57, 8, 52, 86, 46, 63, 42, 60, 74, 91, 64, 32, 15, 103, 94, 98, 75, 9, 14, 76, 82, 71, 102, 88, 22,
         29, 5, 40, 23, 41, 104, 78, 58, 50, 18, 28, 99, 44, 69, 24, 66, 4, 92, 17, 84, 49, 55, 101, 72, 35, 85,
         21, 79, 33, 20, 1, 48, 59, 96, 25, 51, 27, 62, 47, 26, 2, 37, 61, 56, 65, 12, 54, 90, 97, 39, 6, 10
      >>

\* the list after the k-th shuffle of a Shoe(n, shuffle_seed = s)
Shuffled(s, n, k) ==
  LET load == OrderedLoad(n)
      perm == ShufflePerm(s, n, k)
  IN  [i \in 1..Len(load) |-> load[perm[i]]]

(* ---------------- fractions ---------------- *)
Frac(n, d) == [num |-> n, den |-> d]

Zero == Frac(0, 1)

\* int(x) of Python: truncation toward zero
IntTrunc(q) ==
  IF q.num >= 0 THEN q.num \div q.den ELSE -((-q.num) \div q.den)

\* round(x, 3), in thousandths; an exact tie goes to the even neighbour
Round3(q) ==
  LET n == q.num * 1000
      fl == n \div q.den
      rem == n - fl * q.den
  IN  IF 2 * rem < q.den THEN fl
      ELSE IF 2 * rem > q.den THEN fl + 1
      ELSE IF fl % 2 = 0 THEN fl ELSE fl + 1

(* ---------------- Shoe ---------------- *)
cards_remaining(s) == Len(s)

\* max(0.0001, len / 52.0)
decks_remaining(s) ==
  IF Len(s) * 10000 >= DeckSize THEN Frac(Len(s), DeckSize) ELSE Frac(1, 10000)

\* the card Shoe.pop returns: the last element of the list
Top(s) == s[Len(s)]

Rest(s) == SubSeq(s, 1, Len(s) - 1)

(* ---------------- HandState ---------------- *)
HandState(c, b, a) == [cards |-> c, bet |-> b, actions |-> a, doubled |-> FALSE]

NoHand == HandState(<<>>, 0, <<>>)

RECURSIVE RawTotal(_)
\* the for loop of HandState.value: every Ace counted as 11
RawTotal(cards) ==
  IF cards = <<>> THEN 0
  ELSE RawTotal(Rest(cards)) + VALUES[Top(cards)]

RECURSIVE CountAces(_)
CountAces(cards) ==
  IF cards = <<>> THEN 0
  ELSE CountAces(Rest(cards)) + (IF Top(cards) = "A" THEN 1 ELSE 0)

RECURSIVE ReduceAces_at21(_, _)
\* the while loop of HandState.value with the test total >= 21
ReduceAces_at21(total, aces) ==
  IF total >= 21 /\ aces > 0 THEN ReduceAces_at21(total - 10, aces - 1)
  ELSE total

RECURSIVE ReduceAces(_, _)
\* the while loop of HandState.value
ReduceAces(total, aces) ==
  IF total > 21 /\ aces > 0 THEN ReduceAces(total - 10, aces - 1) ELSE total

\* lines 101-118 without the while loop: every Ace counted as 11
value_hard(cards) == RawTotal(cards)

value(cards) == ReduceAces(RawTotal(cards), CountAces(cards))

\* line 122 without the test of the number of cards
is_blackjack_any_21(h) == value(h.cards) = 21

is_blackjack(h) == Len(h.cards) = 2 /\ value(h.cards) = 21

can_split(h) == Len(h.cards) = 2 /\ h.cards[1] = h.cards[2]

\* line 127 without the test of the number of cards
can_double_always(h) == TRUE

can_double(h) == Len(h.cards) = 2

(* ---------------- settlement and bet sizing ---------------- *)
\* _settle with the dealer's bust tested first
_settle_dealer_first(player_value, dealer_value) ==
  IF dealer_value > 21 THEN 1
  ELSE IF player_value > 21 THEN -1
  ELSE IF player_value > dealer_value THEN 1
  ELSE IF player_value < dealer_value THEN -1
  ELSE 0

_settle(player_value, dealer_value) ==
  IF player_value > 21 THEN -1
  ELSE IF dealer_value > 21 THEN 1
  ELSE IF player_value > dealer_value THEN 1
  ELSE IF player_value < dealer_value THEN -1
  ELSE 0

\* default max_mult of _bet_from_true_count
MaxMult == 5

\* _bet_from_true_count with the multiplier int(tc) instead of 1 + int(tc)
_bet_from_true_count_floor(tc, base) ==
  IF tc.num <= 0 THEN base
  ELSE LET mult == IntTrunc(tc)
       IN  base * (IF mult > MaxMult THEN MaxMult ELSE mult)

_bet_from_true_count(tc, base) ==
  IF tc.num <= 0 THEN base
  ELSE LET mult == 1 + IntTrunc(tc)
       IN  base * (IF mult > MaxMult THEN MaxMult ELSE mult)

(* ---------------- decision policies ---------------- *)
simplest_strategy(hand, dealer_up) ==
  IF value(hand.cards) < 17 THEN "hit" ELSE "stand"

\* random.choice(["hit", "stand"]) on the generator of the random module,
\* which nothing in the program seeds: either answer, whatever the arguments
random_strategy(hand, dealer_up) == {"hit", "stand"}

\* the pair section of basic_strategy, "none" where it falls through
BasicPair(rank, dealer_val, doublable) ==
  CASE rank = "A" -> "split"
    [] rank = "10" -> "stand"
    [] rank = "9" ->
         IF 2 <= dealer_val /\ dealer_val <= 9 /\ dealer_val # 7
         THEN "split" ELSE "stand"
    [] rank = "8" -> "split"
    [] rank = "7" ->
         IF 2 <= dealer_val /\ dealer_val <= 7 THEN "split" ELSE "hit"
    [] rank = "6" ->
         IF 2 <= dealer_val /\ dealer_val <= 6 THEN "split" ELSE "hit"
    [] rank = "5" ->
         IF 2 <= dealer_val /\ dealer_val <= 9 /\ doublable
         THEN "double" ELSE "hit"
    [] rank = "4" ->
         IF 5 <= dealer_val /\ dealer_val <= 6 THEN "split" ELSE "hit"
    [] rank \in {"3", "2"} ->
         IF 2 <= dealer_val /\ dealer_val <= 7 THEN "split" ELSE "hit"
    [] OTHER -> "none"

\* the soft-total section of basic_strategy, "none" where it falls through
BasicSoft(v, dealer_val, doublable) ==
  CASE v = 20 -> "stand"
    [] v = 19 -> IF dealer_val = 6 /\ doublable THEN "double" ELSE "stand"
    [] v = 18 ->
         IF 2 <= dealer_val /\ dealer_val <= 6 /\ doublable THEN "double"
         ELSE IF 9 <= dealer_val /\ dealer_val <= 11 THEN "hit"
         ELSE "stand"
    [] v = 17 ->
         IF 3 <= dealer_val /\ dealer_val <= 6 /\ doublable
         THEN "double" ELSE "hit"
    [] v \in {15, 16} ->
         IF 4 <= dealer_val /\ dealer_val <= 6 /\ doublable
         THEN "double" ELSE "hit"
    [] v \in {13, 14} ->
         IF 5 <= dealer_val /\ dealer_val <= 6 /\ doublable
         THEN "double" ELSE "hit"
    [] OTHER -> "none"

\* the hard-total section of basic_strategy
BasicHard(v, dealer_val, doublable) ==
  IF v >= 17 THEN "stand"
  ELSE IF 13 <= v /\ v <= 16
       THEN (IF dealer_val < 7 THEN "stand" ELSE "hit")
  ELSE IF v = 12
       THEN (IF 4 <= dealer_val /\ dealer_val <= 6 THEN "stand" ELSE "hit")
  ELSE IF v = 11 THEN (IF doublable THEN "double" ELSE "hit")
  ELSE IF v = 10
       THEN (IF dealer_val <= 9 /\ doublable THEN "double" ELSE "hit")
  ELSE IF v = 9
       THEN (IF 3 <= dealer_val /\ dealer_val <= 6 /\ doublable
             THEN "double" ELSE "hit")
  ELSE "hit"

basic_strategy(hand, dealer_up) ==
  LET dealer_val == VALUES[dealer_up]
      v == value(hand.cards)
      \* the Aces still counted as 11 after the reduction loop
      aces == CountAces(hand.cards) - ((RawTotal(hand.cards) - v) \div 10)
      is_soft == aces > 0 /\ v <= 21
      pair == IF can_split(hand)
              THEN BasicPair(hand.cards[1], dealer_val, can_double(hand))
              ELSE "none"
      soft == IF is_soft THEN BasicSoft(v, dealer_val, can_double(hand))
              ELSE "none"
  IN  IF pair # "none" THEN pair
      ELSE IF soft # "none" THEN soft
      ELSE BasicHard(v, dealer_val, can_double(hand))

VARIABLES
  rounds, num_decks, base_bet, bet_mode, seed, policy, earlier,
  shoe, cards_total, shuffle_count,
  running_count, total_cards_initial, true_count_prev, results,
  round_id, bet_amount, player, dealer, seen_this_round,
  hands, hand_index, action, pc

vars ==
  <<rounds, num_decks, base_bet, bet_mode, seed, policy, earlier,
    shoe, cards_total, shuffle_count,
    running_count, total_cards_initial, true_count_prev, results,
    round_id, bet_amount, player, dealer, seen_this_round,
    hands, hand_index, action, pc>>

\* the arguments of simulate_rounds; policy names its strategy_fn
inputs == <<rounds, num_decks, base_bet, bet_mode, seed, policy>>

\* a caller-supplied policy: it answers as simplest_strategy in the scripted
\* rounds and gives any answer in the free rounds
scripted_strategy(hand, dealer_up) ==
  IF round_id <= rounds - FreeRounds
  THEN {simplest_strategy(hand, dealer_up)}
  ELSE Answers

\* the answers the decision policy may give for a hand
strategy_fn(hand, dealer_up) ==
  CASE policy = "simplest" -> {simplest_strategy(hand, dealer_up)}
    [] policy = "random" -> random_strategy(hand, dealer_up)
    [] policy = "basic" -> {basic_strategy(hand, dealer_up)}
    [] OTHER -> scripted_strategy(hand, dealer_up)

Init ==
  /\ rounds \in 1..MaxRounds
  /\ num_decks \in DeckCounts
  /\ base_bet \in BaseBets
  /\ bet_mode \in BetModes
  /\ seed \in Seeds
  /\ policy = "scripted"
  /\ earlier = <<>>
  /\ shoe = Shuffled(seed, num_decks, 1)
  /\ cards_total = num_decks * Len(RANKS) * CopiesPerRank
  /\ shuffle_count = 1
  /\ running_count = 0
  /\ total_cards_initial = num_decks * Len(RANKS) * CopiesPerRank
  /\ true_count_prev = Zero
  /\ results = <<>>
  /\ round_id = 0
  /\ bet_amount = 0
  /\ player = NoHand
  /\ dealer = NoHand
  /\ seen_this_round = <<>>
  /\ hands = <<>>
  /\ hand_index = 0
  /\ action = "none"
  /\ pc = "loop"

\* line 222 with the threshold read as 75% of the load left
NeedsReshuffle_swapped(s, total) == 4 * cards_remaining(s) <= 3 * total

\* line 222: shoe.cards_remaining() <= 0.25 * total_cards_initial
NeedsReshuffle(s, total) == 4 * cards_remaining(s) <= total

\* lines 220-231: the reshuffle check and the bet of the round
RoundStart ==
  /\ pc = "loop"
  /\ round_id < rounds
  /\ round_id' = round_id + 1
  /\ IF NeedsReshuffle(shoe, total_cards_initial)
     THEN /\ shoe' = Shuffled(seed, num_decks, shuffle_count + 1)
          /\ shuffle_count' = shuffle_count + 1
          /\ cards_total' = Len(shoe')
          /\ running_count' = 0
          /\ total_cards_initial' = Len(shoe')
          /\ true_count_prev' = Zero
     ELSE UNCHANGED <<shoe, shuffle_count, cards_total, running_count,
                      total_cards_initial, true_count_prev>>
  /\ bet_amount' = IF bet_mode = "fixed" THEN base_bet
                   ELSE _bet_from_true_count(true_count_prev', base_bet)
  /\ pc' = "deal"
  /\ UNCHANGED <<inputs, earlier, action, results, player, dealer,
                 seen_this_round, hands, hand_index>>

\* lines 233-237: the initial deal.  A pop on an empty list raises IndexError,
\* which ends simulate_rounds without a result: pc = "aborted", here and in
\* every action that draws, with the assignments made before the failing pop
Deal ==
  /\ pc = "deal"
  /\ IF Len(shoe) < 4
     THEN /\ shoe' = <<>>
          /\ pc' = "aborted"
          /\ UNCHANGED <<player, dealer, seen_this_round>>
     ELSE LET n == Len(shoe)
              p == <<shoe[n], shoe[n - 1]>>
              d == <<shoe[n - 2], shoe[n - 3]>>
          IN  /\ shoe' = SubSeq(shoe, 1, n - 4)
              /\ player' = HandState(p, bet_amount, <<>>)
              /\ dealer' = HandState(d, 0, <<>>)
              /\ seen_this_round' = p \o d
              /\ pc' = "dealt"
  /\ UNCHANGED <<inputs, earlier, action, cards_total, shuffle_count,
                 running_count, total_cards_initial, true_count_prev, results,
                 round_id, bet_amount, hands, hand_index>>

(* ---------------- RoundResult ---------------- *)
\* a RoundResult as constructed in simulate_rounds, the four end-of-round
\* fields still at their placeholder 0
RoundResult(hn, h, dealer_cards, acts, final, bj, bust) ==
  [round_id |-> round_id,
   hand_number |-> hn,
   player_cards |-> h.cards,
   dealer_cards |-> dealer_cards,
   actions |-> acts,
   bet_amount |-> h.bet,
   final_result |-> final,
   blackjack |-> bj,
   busted |-> bust,
   strategy_used |-> strategy_name,
   bet_mode |-> bet_mode,
   true_count_prev_round |-> Round3(true_count_prev),
   running_count_end |-> 0,
   true_count_end |-> 0,
   cards_remaining |-> 0,
   decks_remaining |-> 0]

RECURSIVE SumHiLo(_)
\* sum(hi_lo_value(r) for r in seen_this_round)
SumHiLo(seen) ==
  IF seen = <<>> THEN 0
  ELSE SumHiLo(Rest(seen)) + hi_lo_value(Top(seen))

\* running_count / shoe.decks_remaining()
TrueCount(rc, s) ==
  LET dr == decks_remaining(s) IN Frac(rc * dr.den, dr.num)

\* the assignments of the end-of-round fields without that of cards_remaining
Backfill_no_cards_remaining(res, rc, tc, s) ==
  [res EXCEPT !.running_count_end = Round3(Frac(rc, 1)),
              !.true_count_end = Round3(tc),
              !.decks_remaining = Round3(decks_remaining(s))]

\* the four assignments that fill the end-of-round fields of a record
Backfill(res, rc, tc, s) ==
  [res EXCEPT !.running_count_end = Round3(Frac(rc, 1)),
              !.true_count_end = Round3(tc),
              !.cards_remaining = cards_remaining(s),
              !.decks_remaining = Round3(decks_remaining(s))]

\* line 242 with the player's own natural ignored
NaturalOutcome_lose(p) == "lose"

\* line 242: the result of a round the dealer's natural decides
NaturalOutcome(p) == IF is_blackjack(p) THEN "push" ELSE "lose"

\* lines 240-271: the dealer has a natural blackjack
DealerBlackjack ==
  /\ pc = "dealt"
  /\ is_blackjack(dealer)
  /\ LET final == NaturalOutcome(player)
         res == RoundResult(1, player, dealer.cards, <<>>, final,
                            is_blackjack(player), FALSE)
         rc == running_count + SumHiLo(seen_this_round)
         true_count_end == TrueCount(rc, shoe)
     IN  /\ running_count' = rc
         /\ results' = Append(results, Backfill(res, rc, true_count_end, shoe))
         /\ true_count_prev' = true_count_end
  /\ pc' = "loop"
  /\ UNCHANGED <<inputs, earlier, action, shoe, cards_total, shuffle_count,
                 total_cards_initial, round_id, bet_amount, player, dealer,
                 seen_this_round, hands, hand_index>>

\* lines 275-292 with the action log of the dealer-natural branch
PlayerBlackjackResult_nolog ==
  RoundResult(1, player, dealer.cards, <<>>, "win", TRUE, FALSE)

\* lines 275-292: the record of a player natural
PlayerBlackjackResult ==
  RoundResult(1, player, dealer.cards, <<"stand">>, "win", TRUE, FALSE)

\* lines 273-302: the player has a natural blackjack and the dealer has not
PlayerBlackjack ==
  /\ pc = "dealt"
  /\ ~is_blackjack(dealer)
  /\ is_blackjack(player)
  /\ LET res == PlayerBlackjackResult
         rc == running_count + SumHiLo(seen_this_round)
         true_count_end == TrueCount(rc, shoe)
     IN  /\ running_count' = rc
         /\ results' = Append(results, Backfill(res, rc, true_count_end, shoe))
         /\ true_count_prev' = true_count_end
  /\ pc' = "loop"
  /\ UNCHANGED <<inputs, earlier, action, shoe, cards_total, shuffle_count,
                 total_cards_initial, round_id, bet_amount, player, dealer,
                 seen_this_round, hands, hand_index>>

\* lines 305-306: no natural, the player's turn starts with one hand.  From
\* here on the hand object is followed in hands; the variable player keeps the
\* two cards as dealt (the code does not read player again in the round).
BeginPlay ==
  /\ pc = "dealt"
  /\ ~is_blackjack(dealer)
  /\ ~is_blackjack(player)
  /\ hands' = <<player>>
  /\ hand_index' = 0
  /\ pc' = "player"
  /\ UNCHANGED <<inputs, earlier, action, shoe, cards_total, shuffle_count,
                 running_count, total_cards_initial, true_count_prev, results,
                 round_id, bet_amount, player, dealer, seen_this_round>>

\* hands[hand_index] (hand_index counts from 0 as in the code)
current == hands[hand_index + 1]

PlayerFrame ==
  UNCHANGED <<inputs, earlier, cards_total, shuffle_count, running_count,
              total_cards_initial, true_count_prev, results, round_id,
              bet_amount, player, dealer>>

\* line 315 with the turn ending on 21 as well
Busted_at21(h) == value(h.cards) >= 21

\* line 315: the hit loop ends when the hand is over 21
Busted(h) == value(h.cards) > 21

\* line 311 without its second disjunct
PlaysAsHit_hit_only(a, h) == a = "hit"

\* line 311: the answers that take the hit branch
PlaysAsHit(a, h) == a = "hit" \/ (a = "double" /\ ~can_double(h))

\* lines 310-316: hit, also the answer "double" for a hand that cannot double;
\* action is the answer the policy just gave (line 310)
PlayerHit ==
  /\ pc = "player"
  /\ hand_index < Len(hands)
  /\ action' \in strategy_fn(current, dealer.cards[1])
  /\ PlaysAsHit(action', current)
  /\ IF shoe = <<>>
     THEN /\ pc' = "aborted"
          /\ UNCHANGED <<shoe, hands, hand_index, seen_this_round>>
     ELSE LET card == Top(shoe)
              h == [current EXCEPT !.cards = Append(@, card),
                                   !.actions = Append(@, "hit")]
          IN  /\ shoe' = Rest(shoe)
              /\ hands' = [hands EXCEPT ![hand_index + 1] = h]
              /\ seen_this_round' = Append(seen_this_round, card)
              /\ hand_index' = IF Busted(h) THEN hand_index + 1
                               ELSE hand_index
              /\ pc' = "player"
  /\ PlayerFrame

\* lines 317-319
PlayerStand ==
  /\ pc = "player"
  /\ hand_index < Len(hands)
  /\ action' \in strategy_fn(current, dealer.cards[1])
  /\ action' = "stand"
  /\ hands' = [hands EXCEPT ![hand_index + 1].actions = Append(@, "stand")]
  /\ hand_index' = hand_index + 1
  /\ UNCHANGED <<shoe, seen_this_round, pc>>
  /\ PlayerFrame

\* lines 320-327
PlayerDouble ==
  /\ pc = "player"
  /\ hand_index < Len(hands)
  /\ action' \in strategy_fn(current, dealer.cards[1])
  /\ action' = "double" /\ can_double(current)
  /\ LET d == [current EXCEPT !.bet = @ * 2,
                              !.doubled = TRUE,
                              !.actions = Append(@, "double")]
     IN  IF shoe = <<>>
         THEN /\ hands' = [hands EXCEPT ![hand_index + 1] = d]
              /\ pc' = "aborted"
              /\ UNCHANGED <<shoe, hand_index, seen_this_round>>
         ELSE LET card == Top(shoe)
                  h == [d EXCEPT !.cards = Append(@, card),
                                 !.actions = Append(@, "stand")]
              IN  /\ shoe' = Rest(shoe)
                  /\ hands' = [hands EXCEPT ![hand_index + 1] = h]
                  /\ seen_this_round' = Append(seen_this_round, card)
                  /\ hand_index' = hand_index + 1
                  /\ pc' = "player"
  /\ PlayerFrame

\* lines 332-336 with the stake divided between the two hands
SplitHand_halved(card, drawn, bet) ==
  HandState(<<card, drawn>>, bet \div 2, <<"split">>)

\* lines 332-336: one hand of a split, a card of the pair plus a drawn card
SplitHand(card, drawn, bet) == HandState(<<card, drawn>>, bet, <<"split">>)

\* lines 331-338 without hands.pop(hand_index): the pair stays in the list
Spliced_pair_kept(hs, i, new) ==
  SubSeq(hs, 1, i) \o new \o SubSeq(hs, i + 1, Len(hs))

\* hands with the element at 0-based position i replaced by the sequence new
Spliced(hs, i, new) ==
  SubSeq(hs, 1, i) \o new \o SubSeq(hs, i + 2, Len(hs))

\* lines 329-341: the pair is replaced in place by two hands and the loop
\* goes on with the left one (hand_index -= 1, then += 1 after the break)
PlayerSplit ==
  /\ pc = "player"
  /\ hand_index < Len(hands)
  /\ action' \in strategy_fn(current, dealer.cards[1])
  /\ action' = "split" /\ can_split(current)
  /\ IF Len(shoe) < 2
     THEN /\ hands' = Spliced(hands, hand_index, <<>>)
          /\ shoe' = <<>>
          /\ pc' = "aborted"
          /\ UNCHANGED <<hand_index, seen_this_round>>
     ELSE LET n == Len(shoe)
              left == SplitHand(current.cards[1], shoe[n], current.bet)
              right == SplitHand(current.cards[2], shoe[n - 1], current.bet)
          IN  /\ shoe' = SubSeq(shoe, 1, n - 2)
              /\ hands' = Spliced(hands, hand_index, <<left, right>>)
              /\ seen_this_round' =
                   seen_this_round \o <<shoe[n], shoe[n - 1]>>
              /\ hand_index' = hand_index
              /\ pc' = "player"
  /\ PlayerFrame

\* lines 342-345 without the append and the break: the policy is asked again
PlayerOther_asks_again ==
  /\ pc = "player"
  /\ hand_index < Len(hands)
  /\ action' \in strategy_fn(current, dealer.cards[1])
  /\ ~PlaysAsHit(action', current)
  /\ action' # "stand"
  /\ ~(action' = "double" /\ can_double(current))
  /\ ~(action' = "split" /\ can_split(current))
  /\ UNCHANGED <<hands, hand_index, shoe, seen_this_round, pc>>
  /\ PlayerFrame

\* lines 342-345: any other answer, and "split" for a hand that cannot split
PlayerOther ==
  /\ pc = "player"
  /\ hand_index < Len(hands)
  /\ action' \in strategy_fn(current, dealer.cards[1])
  /\ ~PlaysAsHit(action', current)
  /\ action' # "stand"
  /\ ~(action' = "double" /\ can_double(current))
  /\ ~(action' = "split" /\ can_split(current))
  /\ hands' = [hands EXCEPT ![hand_index + 1].actions = Append(@, "stand")]
  /\ hand_index' = hand_index + 1
  /\ UNCHANGED <<shoe, seen_this_round, pc>>
  /\ PlayerFrame

\* line 307: the loop over the hands ends
PlayerDone ==
  /\ pc = "player"
  /\ hand_index >= Len(hands)
  /\ pc' = "dealer"
  /\ UNCHANGED <<inputs, earlier, action, shoe, cards_total, shuffle_count,
                 running_count, total_cards_initial, true_count_prev, results,
                 round_id, bet_amount, player, dealer, seen_this_round, hands,
                 hand_index>>

\* line 160 with the dealer standing on 16
DealerMustHit_below_16(d) == value(d.cards) < 16

\* line 160: the test of the dealer's loop
DealerMustHit(d) == value(d.cards) < 17

\* lines 160-162 with the drawn card left in the shoe
DealerHit_card_kept ==
  /\ pc = "dealer"
  /\ DealerMustHit(dealer)
  /\ IF shoe = <<>>
     THEN /\ pc' = "aborted"
          /\ UNCHANGED <<shoe, dealer>>
     ELSE /\ shoe' = shoe
          /\ dealer' = [dealer EXCEPT !.cards = Append(@, Top(shoe)),
                                      !.actions = Append(@, "hit")]
          /\ pc' = "dealer"
  /\ UNCHANGED <<inputs, earlier, action, cards_total, shuffle_count,
                 running_count, total_cards_initial, true_count_prev,
                 results, round_id, bet_amount, player, seen_this_round,
                 hands, hand_index>>

\* lines 160-162: one iteration of the dealer's loop
DealerHit ==
  /\ pc = "dealer"
  /\ DealerMustHit(dealer)
  /\ IF shoe = <<>>
     THEN /\ pc' = "aborted"
          /\ UNCHANGED <<shoe, dealer>>
     ELSE /\ shoe' = Rest(shoe)
          /\ dealer' = [dealer EXCEPT !.cards = Append(@, Top(shoe)),
                                      !.actions = Append(@, "hit")]
          /\ pc' = "dealer"
  /\ UNCHANGED <<inputs, earlier, action, cards_total, shuffle_count,
                 running_count, total_cards_initial, true_count_prev, results,
                 round_id, bet_amount, player, seen_this_round, hands,
                 hand_index>>

\* lines 351-352 left out
DealerDrawn_none(d) == <<>>

\* lines 351-352: dealer.cards[2:], the cards the dealer drew
DealerDrawn(d) == SubSeq(d.cards, 3, Len(d.cards))

\* lines 163 and 350-352: the dealer stands, its drawn cards are now seen
DealerStand ==
  /\ pc = "dealer"
  /\ ~DealerMustHit(dealer)
  /\ dealer' = [dealer EXCEPT !.actions = Append(@, "stand")]
  /\ seen_this_round' = seen_this_round \o DealerDrawn(dealer)
  /\ pc' = "settle"
  /\ UNCHANGED <<inputs, earlier, action, shoe, cards_total, shuffle_count,
                 running_count, total_cards_initial, true_count_prev, results,
                 round_id, bet_amount, player, hands, hand_index>>

\* lines 358-386 with hand_counter never incremented
SettledHand_uncounted(h, hand_counter) ==
  LET outcome == _settle(value(h.cards), value(dealer.cards))
      result_str == IF outcome = 0 THEN "push"
                    ELSE IF outcome > 0 THEN "win" ELSE "lose"
  IN  RoundResult(1, h, dealer.cards, h.actions, result_str,
                  is_blackjack(h), value(h.cards) > 21)

\* lines 358-386: the record of the hand with 1-based number hand_counter
SettledHand(h, hand_counter) ==
  LET outcome == _settle(value(h.cards), value(dealer.cards))
      result_str == IF outcome = 0 THEN "push"
                    ELSE IF outcome > 0 THEN "win" ELSE "lose"
  IN  RoundResult(hand_counter, h, dealer.cards, h.actions, result_str,
                  is_blackjack(h), value(h.cards) > 21)

\* lines 354-387: one record per hand, appended in hand order
SettleHands ==
  /\ pc = "settle"
  /\ results' = results \o [i \in 1..Len(hands) |-> SettledHand(hands[i], i)]
  /\ pc' = "update"
  /\ UNCHANGED <<inputs, earlier, action, shoe, cards_total, shuffle_count,
                 running_count, total_cards_initial, true_count_prev,
                 round_id, bet_amount, player, dealer, seen_this_round, hands,
                 hand_index>>

\* lines 389-399 without the assignment of line 399
UpdateCounts_no_carry ==
  /\ pc = "update"
  /\ LET rc == running_count + SumHiLo(seen_this_round)
         true_count == TrueCount(rc, shoe)
         first == Len(results) - Len(hands) + 1
     IN  /\ running_count' = rc
         /\ results' = [i \in 1..Len(results) |->
                          IF i >= first
                          THEN Backfill(results[i], rc, true_count, shoe)
                          ELSE results[i]]
  /\ pc' = "loop"
  /\ UNCHANGED <<inputs, earlier, action, shoe, cards_total, shuffle_count,
                 total_cards_initial, true_count_prev, round_id, bet_amount,
                 player, dealer, seen_this_round, hands, hand_index>>

\* lines 389-399: the Hi-Lo update and the backfill of the round's records
UpdateCounts ==
  /\ pc = "update"
  /\ LET rc == running_count + SumHiLo(seen_this_round)
         true_count == TrueCount(rc, shoe)
         first == Len(results) - Len(hands) + 1
     IN  /\ running_count' = rc
         /\ results' = [i \in 1..Len(results) |->
                          IF i >= first
                          THEN Backfill(results[i], rc, true_count, shoe)
                          ELSE results[i]]
         /\ true_count_prev' = true_count
  /\ pc' = "loop"
  /\ UNCHANGED <<inputs, earlier, action, shoe, cards_total, shuffle_count,
                 total_cards_initial, round_id, bet_amount, player, dealer,
                 seen_this_round, hands, hand_index>>

\* line 401
Return ==
  /\ pc = "loop"
  /\ round_id = rounds
  /\ pc' = "returned"
  /\ UNCHANGED <<inputs, earlier, action, shoe, cards_total, shuffle_count,
                 running_count, total_cards_initial, true_count_prev, results,
                 round_id, bet_amount, player, dealer, seen_this_round, hands,
                 hand_index>>

Next ==
  \/ RoundStart
  \/ Deal
  \/ DealerBlackjack
  \/ PlayerBlackjack
  \/ BeginPlay
  \/ PlayerHit
  \/ PlayerStand
  \/ PlayerDouble
  \/ PlayerSplit
  \/ PlayerOther
  \/ PlayerDone
  \/ DealerHit
  \/ DealerStand
  \/ SettleHands
  \/ UpdateCounts
  \/ Return

Spec == Init /\ [][Next]_vars

\* the calls of at most FairRounds rounds
InitFair == Init /\ rounds <= FairRounds

\* simulate_rounds is one sequential call: while a statement remains to be
\* executed, the interpreter executes it
SpecFair == InitFair /\ [][Next]_vars /\ WF_vars(Next)

(* ---------------- HandState.value on arbitrary card sequences ---------------- *)
\* a HandState with no cards yet, nothing else of the simulation running
InitValue ==
  /\ rounds = 1
  /\ num_decks = 1
  /\ base_bet = 10
  /\ bet_mode = "fixed"
  /\ seed = 350
  /\ policy = "scripted"
  /\ earlier = <<>>
  /\ shoe = <<>>
  /\ cards_total = 0
  /\ shuffle_count = 0
  /\ running_count = 0
  /\ total_cards_initial = 0
  /\ true_count_prev = Zero
  /\ results = <<>>
  /\ round_id = 0
  /\ bet_amount = 0
  /\ player = NoHand
  /\ dealer = NoHand
  /\ seen_this_round = <<>>
  /\ hands = <<>>
  /\ hand_index = 0
  /\ action = "none"
  /\ pc = "value"

\* cards.append(rank) for any rank
AddCard ==
  /\ pc = "value"
  /\ Len(player.cards) < MaxHandLen
  /\ \E r \in RankSet : player' = [player EXCEPT !.cards = Append(@, r)]
  /\ UNCHANGED <<inputs, earlier, action, shoe, cards_total, shuffle_count,
                 running_count, total_cards_initial, true_count_prev, results,
                 round_id, bet_amount, dealer, seen_this_round, hands,
                 hand_index, pc>>

NextValue == AddCard

SpecValue == InitValue /\ [][NextValue]_vars

(* ---------------- the same call made twice ---------------- *)
\* a caller that calls simulate_rounds with a catalog policy, keeps the list
\* it returns and calls it again with the same arguments
InitReplay ==
  /\ rounds \in 1..ReplayRounds
  /\ num_decks \in DeckCounts
  /\ base_bet \in BaseBets
  /\ bet_mode \in BetModes
  /\ seed \in Seeds
  /\ policy \in Catalog
  /\ earlier = <<>>
  /\ shoe = Shuffled(seed, num_decks, 1)
  /\ cards_total = num_decks * Len(RANKS) * CopiesPerRank
  /\ shuffle_count = 1
  /\ running_count = 0
  /\ total_cards_initial = num_decks * Len(RANKS) * CopiesPerRank
  /\ true_count_prev = Zero
  /\ results = <<>>
  /\ round_id = 0
  /\ bet_amount = 0
  /\ player = NoHand
  /\ dealer = NoHand
  /\ seen_this_round = <<>>
  /\ hands = <<>>
  /\ hand_index = 0
  /\ action = "none"
  /\ pc = "loop"

\* the second call: lines 213-218 again, with a new Shoe from the same seed
Rerun ==
  /\ pc = "returned"
  /\ earlier = <<>>
  /\ earlier' = <<results>>
  /\ shoe' = Shuffled(seed, num_decks, 1)
  /\ cards_total' = num_decks * Len(RANKS) * CopiesPerRank
  /\ shuffle_count' = 1
  /\ running_count' = 0
  /\ total_cards_initial' = num_decks * Len(RANKS) * CopiesPerRank
  /\ true_count_prev' = Zero
  /\ results' = <<>>
  /\ round_id' = 0
  /\ pc' = "loop"
  /\ UNCHANGED <<inputs, action, bet_amount, player, dealer, seen_this_round,
                 hands, hand_index>>

\* no catalog policy gives an answer that reaches the else branch of the
\* decision loop
NextReplay ==
  \/ RoundStart
  \/ Deal
  \/ DealerBlackjack
  \/ PlayerBlackjack
  \/ BeginPlay
  \/ PlayerHit
  \/ PlayerStand
  \/ PlayerDouble
  \/ PlayerSplit
  \/ PlayerDone
  \/ DealerHit
  \/ DealerStand
  \/ SettleHands
  \/ UpdateCounts
  \/ Return
  \/ Rerun

SpecReplay == InitReplay /\ [][NextReplay]_vars

(* ================= properties ================= *)
\* the records of the round being played: the last Len(hands) entries
RoundRecords == SubSeq(results, Len(results) - Len(hands) + 1, Len(results))

Last(s) == s[Len(s)]

RECURSIVE Reverse(_)
Reverse(s) == IF s = <<>> THEN <<>> ELSE <<Top(s)>> \o Reverse(Rest(s))

RECURSIVE AllCards(_)
\* the cards of a list of hands, hand after hand
AllCards(hs) == IF hs = <<>> THEN <<>> ELSE AllCards(Rest(hs)) \o Top(hs).cards

\* a step that ends a round: after a natural, or after the update of a played round
RoundEnds == pc \in {"dealt", "update"} /\ pc' = "loop"

\* the four cards of the initial deal
DealtCards == player.cards \o SubSeq(dealer.cards, 1, 2)

\* C1: no card is ever drawn from an empty shoe, i.e. no draw of the initial
\* deal, of a hit, double or split, or of the dealer ever finds the shoe empty
\* and aborts the run.
C1_NoDrawFromEmptyShoe == pc # "aborted"

C3_OnlyDealtCardsCounted ==
  [][RoundEnds => running_count' = running_count + SumHiLo(DealtCards)]_vars

\* C3 as amended: a round advances the running count by the Hi-Lo weights of
\* every card drawn in it (the four dealt cards and each card drawn by a hit,
\* a double, a split or the dealer), and the true count carried on is that
\* running count over the decks left in the shoe.
C3_AllDrawnCardsCounted ==
  [][RoundEnds =>
       /\ running_count' = running_count +
            (IF pc = "dealt" THEN SumHiLo(DealtCards)
             ELSE SumHiLo(AllCards(hands)) + SumHiLo(dealer.cards))
       /\ IF Len(shoe) > 0
          THEN true_count_prev'.num * Len(shoe) =
                 running_count' * DeckSize * true_count_prev'.den
          ELSE true_count_prev'.num =
                 running_count' * 10000 * true_count_prev'.den]_vars

\* a round has ended in which a drawn card of non-zero weight was counted
C3_Witness ==
  /\ pc = "loop"
  /\ round_id >= 1
  /\ Len(seen_this_round) > 4
  /\ SumHiLo(seen_this_round) # SumHiLo(SubSeq(seen_this_round, 1, 4))
  /\ Len(shoe) > 0

\* the shoe as it was right after the initial deal of the round being played:
\* the cards drawn since are seen_this_round[5..], in draw order
ShoeAfterDeal ==
  shoe \o Reverse(SubSeq(seen_this_round, 5, Len(seen_this_round)))

RECURSIVE TerminalLogs(_, _)
\* the action logs of all terminal action sequences over stand, hit and
\* double-with-two-cards from a hand, drawing from the top of s: stand and
\* double end the turn, a hit ends it only when it busts
TerminalLogs(cards, s) ==
  {<<"stand">>}
  \cup (IF Len(cards) = 2 THEN {<<"double", "stand">>} ELSE {})
  \cup (IF s = <<>> THEN {}
        ELSE LET c == Append(cards, Top(s))
             IN  IF value(c) > 21 THEN {<<"hit">>}
                 ELSE {<<"hit">> \o l : l \in TerminalLogs(c, Rest(s))})

\* the action logs of the records of the round being played
RoundLogs == {RoundRecords[i].actions : i \in 1..Len(RoundRecords)}

\* C4 as stated: a round without natural emits exactly one record per
\* terminal action sequence reachable from the dealt hand over stand, hit and
\* double-with-two-cards, none twice and none left out.
C4_OneRecordPerTerminalSequence ==
  pc = "update" =>
    /\ RoundLogs = TerminalLogs(player.cards, ShoeAfterDeal)
    /\ Len(RoundRecords) = Cardinality(TerminalLogs(player.cards, ShoeAfterDeal))

\* C4 as amended: a round without natural emits exactly one record per
\* player hand of the round, in hand order, carrying that hand's cards and
\* the one action sequence the policy's answers produced for it; when no
\* split occurred this is a single record whose log is one of the terminal
\* action sequences reachable from the dealt hand.
C4_OneRecordPerHand ==
  pc = "update" =>
    /\ Len(results) >= Len(hands)
    /\ \A i \in 1..Len(hands) :
         /\ RoundRecords[i].round_id = round_id
         /\ RoundRecords[i].hand_number = i
         /\ RoundRecords[i].player_cards = hands[i].cards
         /\ RoundRecords[i].actions = hands[i].actions
    /\ \A i \in 1..(Len(results) - Len(hands)) : results[i].round_id < round_id
    /\ (\A i \in 1..Len(hands) : hands[i].actions[1] # "split") =>
         /\ Len(hands) = 1
         /\ hands[1].actions \in TerminalLogs(player.cards, ShoeAfterDeal)

\* a played round has emitted its single record after a hit that reached 21
\* and a further answer
C4_Witness ==
  /\ pc = "update"
  /\ Len(hands) = 1
  /\ \E k \in 1..Len(hands[1].cards) :
       /\ k > 2
       /\ k - 2 < Len(hands[1].actions)
       /\ value(SubSeq(hands[1].cards, 1, k)) = 21
       /\ hands[1].actions[k - 2] = "hit"

\* a record of a round that a natural blackjack decided before any play
NaturalRecord(r) ==
  \/ value(SubSeq(r.dealer_cards, 1, 2)) = 21
  \/ (r.actions = <<"stand">> /\ Len(r.player_cards) = 2
        /\ value(r.player_cards) = 21)

\* C5: every record of a round not decided by a natural has final_result =
\* settle(value of player_cards, value of dealer_cards): the player over 21
\* loses whatever the dealer has, else a dealer over 21 means win, else the
\* higher total wins and equal totals push.
C5_FinalResultIsSettle ==
  \A i \in 1..Len(results) :
    LET r == results[i]
        pv == value(r.player_cards)
        dv == value(r.dealer_cards)
    IN  ~NaturalRecord(r) =>
          r.final_result =
            (IF pv > 21 THEN "lose"
             ELSE IF dv > 21 THEN "win"
             ELSE IF pv > dv THEN "win"
             ELSE IF pv < dv THEN "lose"
             ELSE "push")

\* a record of a played round in which player and dealer both went over 21
C5_Witness ==
  \E i \in 1..Len(results) :
    /\ ~NaturalRecord(results[i])
    /\ value(results[i].player_cards) > 21
    /\ value(results[i].dealer_cards) > 21
    /\ results[i].final_result = "lose"

\* the point value of a rank with the Ace counted as 1
LowValue(r) ==
  IF r = "A" THEN 1
  ELSE IF r \in {"10", "J", "Q", "K"} THEN 10
  ELSE CHOOSE v \in 2..9 : ToString(v) = r

RECURSIVE LowTotal(_)
LowTotal(cards) ==
  IF cards = <<>> THEN 0 ELSE LowTotal(Rest(cards)) + LowValue(Top(cards))

Aces(cards) == Cardinality({i \in 1..Len(cards) : cards[i] = "A"})

\* C6: HandState.value is the largest total <= 21 obtainable by counting each
\* Ace as 1 or 11, or the all-Aces-as-1 total when there is none; so it is
\* <= 21 whenever that low total is, and it takes off at most one 10 per Ace.
C6_ValueIsBestTotal ==
  LET c == player.cards
      totals == {LowTotal(c) + 10 * k : k \in 0..Aces(c)}
      fit == {t \in totals : t <= 21}
      best == IF fit = {} THEN LowTotal(c)
              ELSE CHOOSE t \in fit : \A u \in fit : u <= t
  IN  /\ value(c) = best
      /\ LowTotal(c) <= 21 => value(c) <= 21
      /\ LowTotal(c) + 10 * Aces(c) - value(c) \in {10 * k : k \in 0..Aces(c)}

\* a hand with two Aces, both of which had to be counted as 1
C6_Witness ==
  /\ pc = "value"
  /\ Aces(player.cards) = 2
  /\ value(player.cards) = LowTotal(player.cards)
  /\ value(player.cards) <= 21

\* the number of records of the round numbered k
RecordsOfRound(res, k) ==
  Cardinality({i \in 1..Len(res) : res[i].round_id = k})

\* C7: when the dealer's two dealt cards are a natural blackjack the round
\* ends in that very step, without any answer of the policy and without a
\* further draw, and emits exactly one record: empty action log, the round's
\* undoubled bet, busted false, push if the player's two cards are a natural
\* too and lose otherwise.
C7_DealerNaturalShortCircuit ==
  [][(pc = "dealt" /\ value(dealer.cards) = 21) =>
       /\ pc' = "loop"
       /\ shoe' = shoe
       /\ Len(seen_this_round') = 4
       /\ Len(results') = Len(results) + 1
       /\ SubSeq(results', 1, Len(results)) = results
       /\ RecordsOfRound(results', round_id) = 1
       /\ LET r == Last(results')
          IN  /\ r.round_id = round_id
              /\ r.actions = <<>>
              /\ r.bet_amount = bet_amount
              /\ r.busted = FALSE
              /\ r.player_cards = player.cards
              /\ r.dealer_cards = dealer.cards
              /\ Len(r.dealer_cards) = 2
              /\ r.final_result =
                   (IF value(player.cards) = 21 THEN "push" ELSE "lose")]_vars

\* a round has ended on naturals of both dealer and player
C7_Witness ==
  /\ pc = "loop"
  /\ results # <<>>
  /\ Last(results).round_id = round_id
  /\ Last(results).actions = <<>>
  /\ value(Last(results).dealer_cards) = 21
  /\ value(Last(results).player_cards) = 21
  /\ Last(results).final_result = "push"

\* C8: when the player's two dealt cards are a natural blackjack and the
\* dealer's are not, the round ends in that very step, without any answer of
\* the policy, without a dealer draw and without any further card leaving the
\* shoe, and emits exactly one record: win, blackjack true, action log
\* [stand], the round's bet.
C8_PlayerNaturalShortCircuit ==
  [][(pc = "dealt" /\ value(player.cards) = 21 /\ value(dealer.cards) # 21) =>
       /\ pc' = "loop"
       /\ shoe' = shoe
       /\ dealer' = dealer
       /\ Len(seen_this_round') = 4
       /\ Len(results') = Len(results) + 1
       /\ SubSeq(results', 1, Len(results)) = results
       /\ RecordsOfRound(results', round_id) = 1
       /\ LET r == Last(results')
          IN  /\ r.round_id = round_id
              /\ r.final_result = "win"
              /\ r.blackjack = TRUE
              /\ r.actions = <<"stand">>
              /\ r.bet_amount = bet_amount
              /\ r.player_cards = player.cards
              /\ r.dealer_cards = dealer.cards
              /\ Len(r.dealer_cards) = 2]_vars

\* a round has ended on a natural of the player alone
C8_Witness ==
  /\ pc = "loop"
  /\ results # <<>>
  /\ Last(results).round_id = round_id
  /\ Len(Last(results).player_cards) = 2
  /\ value(Last(results).player_cards) = 21
  /\ value(Last(results).dealer_cards) < 21
  /\ Last(results).actions = <<"stand">>
  /\ Last(results).final_result = "win"

\* the multiplier of the count-scaled ramp for a true count n/d, d > 0
RampMultiplier(tc) ==
  IF tc.num <= 0 THEN 1
  ELSE LET m == 1 + (tc.num \div tc.den) IN IF m < 5 THEN m ELSE 5

\* the shoe holds a full load: nothing was dealt since the last shuffle
FreshLoad == Len(shoe) = num_decks * DeckSize

\* C9: the bet placed at the start of a round is base_bet in fixed mode and
\* base_bet x m in count-scaled mode, m = 1 for a carried true count <= 0 and
\* min(5, 1 + floor(true count)) otherwise; the carried true count is 0 in
\* round 1 and in a round that starts with a reshuffle, and otherwise the
\* running count over the decks left at the end of the previous round.
C9_BetFollowsCarriedTrueCount ==
  pc = "deal" =>
    /\ (round_id = 1 \/ FreshLoad) => true_count_prev.num = 0
    /\ (round_id > 1 /\ ~FreshLoad /\ Len(shoe) > 0) =>
         true_count_prev.num * Len(shoe) =
           running_count * DeckSize * true_count_prev.den
    /\ bet_mode = "fixed" => bet_amount = base_bet
    /\ bet_mode # "fixed" =>
         bet_amount = base_bet * RampMultiplier(true_count_prev)

\* a count-scaled round starts on a true count in [2, 3): the bet is tripled
C9_Witness ==
  /\ pc = "deal"
  /\ bet_mode = "hi-lo"
  /\ true_count_prev.num >= 2 * true_count_prev.den
  /\ true_count_prev.num < 3 * true_count_prev.den
  /\ bet_amount = 3 * base_bet

\* C10: in fixed mode every record carries base_bet when its hand was not
\* doubled and 2 x base_bet when it was, hands created by splits included.
C10_FixedModeBetAmounts ==
  bet_mode = "fixed" =>
    \A i \in 1..Len(results) :
      LET r == results[i]
          was_doubled == \E k \in 1..Len(r.actions) : r.actions[k] = "double"
      IN  r.bet_amount = IF was_doubled THEN 2 * base_bet ELSE base_bet

\* fixed mode: a record of a hand that was created by a split and then doubled
C10_Witness ==
  /\ bet_mode = "fixed"
  /\ \E i \in 1..Len(results) :
       /\ results[i].actions = <<"split", "double", "stand">>
       /\ results[i].bet_amount = 2 * base_bet

\* the policy is being consulted: every step from such a state is one
\* iteration of the decision loop, and action' is the policy's answer
Consulted == pc = "player" /\ hand_index < Len(hands)

\* the effect of a stand on the current hand: "stand" logged, no card drawn,
\* the bet unchanged, the turn over, no error
EndsAsStand ==
  /\ hands' = [hands EXCEPT ![hand_index + 1].actions = Append(@, "stand")]
  /\ shoe' = shoe
  /\ seen_this_round' = seen_this_round
  /\ hand_index' = hand_index + 1
  /\ pc' = "player"

\* the effect of a hit on the current hand: with a card in the shoe, that card
\* is drawn and "hit" is logged, the bet is unchanged and the turn is over only
\* if the hand is now over 21; with an empty shoe the run aborts
PlayedAsHit ==
  IF shoe = <<>> THEN pc' = "aborted"
  ELSE /\ pc' = "player"
       /\ shoe' = Rest(shoe)
       /\ Len(hands') = Len(hands)
       /\ \A i \in 1..Len(hands) : i # hand_index + 1 => hands'[i] = hands[i]
       /\ hands'[hand_index + 1] =
            [current EXCEPT !.cards = Append(@, Top(shoe)),
                            !.actions = Append(@, "hit")]
       /\ hand_index' =
            IF value(Append(current.cards, Top(shoe))) > 21
            THEN hand_index + 1 ELSE hand_index

\* C11 as stated: an answer outside hit/stand/double/split, a double for a
\* hand that cannot double and a split for a hand that cannot split all end
\* the hand's turn at once as a stand: "stand" logged, no card drawn, the bet
\* unchanged, no error.
C11_IneligibleAnswersStand ==
  [][(/\ Consulted
      /\ \/ action' \notin {"hit", "stand", "double", "split"}
         \/ (action' = "double" /\ Len(current.cards) # 2)
         \/ (action' = "split" /\ ~can_split(current)))
     => EndsAsStand]_vars

\* C11 as amended: an answer outside hit/stand/double/split and a split for a
\* hand that cannot split end the hand's turn at once as a stand; a double
\* for a hand that cannot double is played exactly as a hit.
C11_IneligibleDoubleHits ==
  [][/\ (/\ Consulted
         /\ \/ action' \notin {"hit", "stand", "double", "split"}
            \/ (action' = "split" /\ ~can_split(current)))
        => EndsAsStand
     /\ (Consulted /\ action' = "double" /\ Len(current.cards) # 2)
        => PlayedAsHit]_vars

\* the policy has just answered double for a hand of three or more cards,
\* which drew a card and is still in play
C11_Witness ==
  /\ pc = "player"
  /\ hand_index < Len(hands)
  /\ action = "double"
  /\ Len(current.cards) >= 4
  /\ Last(current.actions) = "hit"

\* the round after the one record q belongs to starts with a reshuffle: the
\* shoe q reports at the end of its round is at or below the 25% threshold
ReshuffleFollows(q) == 4 * q.cards_remaining <= num_decks * DeckSize

\* C12: every record of round 1 reports a previous-round true count of 0, and
\* every record of a round k+1 reports the true_count_end of the records of
\* round k, except that it reports 0 when round k+1 starts with a reshuffle.
C12_TrueCountCarried ==
  \A j \in 1..Len(results) :
    /\ results[j].round_id = 1 => results[j].true_count_prev_round = 0
    /\ \A i \in 1..Len(results) :
         results[j].round_id = results[i].round_id + 1 =>
           results[j].true_count_prev_round =
             IF ReshuffleFollows(results[i]) THEN 0
             ELSE results[i].true_count_end

\* the run has carried a true count other than 0 from one round to the next,
\* and has dropped one other than 0 at a reshuffle
C12_Witness ==
  /\ \E i, j \in 1..Len(results) :
       /\ results[j].round_id = results[i].round_id + 1
       /\ ~ReshuffleFollows(results[i])
       /\ results[i].true_count_end # 0
       /\ results[j].true_count_prev_round = results[i].true_count_end
  /\ \E i, j \in 1..Len(results) :
       /\ results[j].round_id = results[i].round_id + 1
       /\ ReshuffleFollows(results[i])
       /\ results[i].true_count_end # 0
       /\ results[j].true_count_prev_round = 0

\* the number of copies of rank r in the list s
Copies(s, r) == Cardinality({i \in 1..Len(s) : s[i] = r})

\* the first round played from the load now in the shoe: the round after the
\* last finished round whose records report a shoe at or below the threshold
FirstRoundOfLoad ==
  LET before == {results[i].round_id : i \in
                   {j \in 1..Len(results) :
                      /\ results[j].round_id < round_id
                      /\ ReshuffleFollows(results[j])}}
  IN  IF before = {} THEN 1
      ELSE 1 + CHOOSE k \in before : \A l \in before : l <= k

RECURSIVE RecordCards(_, _)
\* the cards of the records of rounds >= from: every record's player cards
\* and, once per round, the dealer's cards
RecordCards(res, from) ==
  IF res = <<>> THEN <<>>
  ELSE LET r == Top(res)
       IN  RecordCards(Rest(res), from)
             \o (IF r.round_id < from THEN <<>>
                 ELSE r.player_cards
                        \o (IF r.hand_number = 1 THEN r.dealer_cards
                            ELSE <<>>))

\* the cards of the round in progress that no record holds yet
InPlay ==
  IF pc = "dealt" THEN player.cards \o dealer.cards
  ELSE IF pc \in {"player", "dealer", "settle"}
       THEN AllCards(hands) \o dealer.cards
       ELSE <<>>

\* the cards drawn since the last reshuffle, as the hands and records hold them
DrawnSinceReshuffle == RecordCards(results, FirstRoundOfLoad) \o InPlay

\* the shoe holds a full load: num_decks x 52 cards, 4 x num_decks per rank
FullLoad(s) ==
  /\ Len(s) = num_decks * DeckSize
  /\ \A r \in RankSet : Copies(s, r) = CopiesPerRank * num_decks

\* C13: the shoe holds num_decks x 52 cards, 4 x num_decks of each rank,
\* right after construction and after every reshuffle; a step that draws
\* takes the drawn cards off the end of the shoe and lowers the remaining
\* count by one per card that reaches a hand; and in every state, for each
\* rank, the copies in the shoe plus the copies drawn since the last
\* reshuffle are 4 x num_decks, so neither the remaining count nor the number
\* of draws since the last reshuffle exceeds num_decks x 52.
C13_ShoeAccounting ==
  /\ [](round_id = 0 => FullLoad(shoe))
  /\ [][shuffle_count' # shuffle_count => FullLoad(shoe')]_vars
  /\ [][(shuffle_count' = shuffle_count /\ pc' # "aborted") =>
          /\ Len(shoe') <= Len(shoe)
          /\ shoe' = SubSeq(shoe, 1, Len(shoe'))]_vars
  /\ [](pc # "aborted" =>
          LET all == shoe \o DrawnSinceReshuffle
          IN  /\ Len(all) = num_decks * DeckSize
              /\ \A r \in RankSet : Copies(all, r) = CopiesPerRank * num_decks)
  /\ [](cards_remaining(shoe) <= num_decks * DeckSize)

\* a second load is in use and a round with a split and a dealer draw is
\* being played from it
C13_Witness ==
  /\ shuffle_count = 2
  /\ pc = "settle"
  /\ Len(hands) >= 2
  /\ Len(dealer.cards) >= 3
  /\ Len(DrawnSinceReshuffle) >= 7
  /\ Len(shoe) + Len(DrawnSinceReshuffle) = num_decks * DeckSize

\* C14: a call of simulate_rounds with a catalog policy, made a second time
\* with the same seed, rounds, num_decks, base_bet, bet_mode and policy,
\* returns the same list of records as the first time.
C14_SameSeedSameRecords ==
  (pc = "returned" /\ earlier # <<>>) => results = earlier[1]

\* C15: the list of records is ordered by round, every finished round has at
\* least one record, and the records of one round are numbered 1, 2, ..., k
\* in list order, k being the number of player hands of the round.
C15_RecordsOrdered ==
  /\ \A i \in 1..Len(results) :
       IF i = 1 THEN results[i].round_id = 1 /\ results[i].hand_number = 1
       ELSE \/ /\ results[i].round_id = results[i - 1].round_id
               /\ results[i].hand_number = results[i - 1].hand_number + 1
            \/ /\ results[i].round_id = results[i - 1].round_id + 1
               /\ results[i].hand_number = 1
  /\ pc \in {"loop", "returned"} =>
       \A k \in 1..round_id : RecordsOfRound(results, k) >= 1
  /\ pc = "returned" => round_id = rounds
  /\ pc = "update" =>
       /\ RecordsOfRound(results, round_id) = Len(hands)
       /\ Last(results).hand_number = Len(hands)

\* simulate_rounds has returned a list in which a round decided by a natural
\* has one record and a later round with splits has three or more
C15_Witness ==
  /\ pc = "returned"
  /\ \E i, j \in 1..Len(results) :
       /\ i < j
       /\ NaturalRecord(results[i])
       /\ results[j].hand_number >= 3
       /\ results[j].round_id > results[i].round_id

\* a two-card 21: an Ace with a ten-valued card
TwoCard21(cards) ==
  /\ Len(cards) = 2
  /\ \E i, j \in 1..2 :
       i # j /\ cards[i] = "A" /\ cards[j] \in {"10", "J", "Q", "K"}

\* C16: the blackjack flag of a record is true exactly when its player_cards
\* are two cards worth 21; a 21 of three or more cards is never flagged.
C16_BlackjackFlag ==
  \A i \in 1..Len(results) :
    /\ results[i].blackjack = TwoCard21(results[i].player_cards)
    /\ results[i].blackjack =
         (Len(results[i].player_cards) = 2
            /\ value(results[i].player_cards) = 21)
    /\ (Len(results[i].player_cards) >= 3
          /\ value(results[i].player_cards) = 21) => ~results[i].blackjack

\* the records hold a 21 of three or more cards, not flagged, and a dealt
\* natural, flagged
C16_Witness ==
  /\ \E i \in 1..Len(results) :
       /\ Len(results[i].player_cards) >= 3
       /\ value(results[i].player_cards) = 21
       /\ ~results[i].blackjack
  /\ \E i \in 1..Len(results) :
       /\ results[i].blackjack
       /\ results[i].actions = <<"stand">>

\* the action log and the cards of one record agree with the rules of double
\* and stand
LogWellFormed(r) ==
  LET log == r.actions
      n == Len(log)
  IN  /\ Copies(log, "double") <= 1
      /\ \A k \in 1..n :
           log[k] = "double" =>
             /\ Copies(SubSeq(log, 1, k - 1), "hit") = 0
             /\ k = n - 1
             /\ log[n] = "stand"
             /\ Len(r.player_cards) = 3
      /\ \A k \in 1..n : log[k] = "stand" => k = n
      /\ Len(r.player_cards) = 2 + Copies(log, "hit") + Copies(log, "double")

\* C17: in every record's action log "double" occurs at most once, only on a
\* hand of exactly two cards (no hit before it), is followed by exactly one
\* drawn card and the final "stand", and doubles the bet of the hand; nothing
\* follows a "stand"; and the player's cards number 2 + hits + doubles.
C17_DoubleAndStand ==
  /\ \A i \in 1..Len(results) : LogWellFormed(results[i])
  /\ pc = "update" =>
       \A i \in 1..Len(RoundRecords) :
         RoundRecords[i].bet_amount =
           IF Copies(RoundRecords[i].actions, "double") = 1
           THEN 2 * bet_amount ELSE bet_amount

\* a count-scaled round above the base bet ends with a split hand that was
\* doubled and another hand that was hit
C17_Witness ==
  /\ pc = "update"
  /\ bet_amount > base_bet
  /\ \E i, j \in 1..Len(RoundRecords) :
       /\ RoundRecords[i].actions = <<"split", "double", "stand">>
       /\ RoundRecords[i].bet_amount = 2 * bet_amount
       /\ Copies(RoundRecords[j].actions, "hit") >= 2

\* the hand is over 21 even with every Ace counted as 1
Over21(cards) == LowTotal(cards) > 21

\* C18: the policy is never consulted for a hand over 21; a hand over 21
\* receives no further card or log entry while the round is played; a
\* record's busted flag is true exactly when its player_cards are over 21;
\* and a busted record has final_result lose, whatever the dealer holds.
C18_BustEndsTurn ==
  /\ [](Consulted => ~Over21(current.cards))
  /\ [][pc = "player" =>
          \A i \in 1..Len(hands) :
            Over21(hands[i].cards) =>
              Len(hands') >= i /\ hands'[i] = hands[i]]_vars
  /\ [](\A i \in 1..Len(results) :
          /\ results[i].busted = Over21(results[i].player_cards)
          /\ results[i].busted = (value(results[i].player_cards) > 21)
          /\ results[i].busted => results[i].final_result = "lose")

\* the first hand of a split went over 21 and the policy is now consulted
\* for a later hand, in a run whose records hold a busted hand that lost to a
\* dealer over 21
C18_Witness ==
  /\ pc = "player"
  /\ 1 <= hand_index
  /\ hand_index < Len(hands)
  /\ Over21(hands[1].cards)
  /\ \E i \in 1..Len(results) :
       /\ results[i].busted
       /\ Over21(results[i].dealer_cards)
       /\ results[i].final_result = "lose"

\* the hand's turn is over: it is over 21 or its log ends with "stand"
Finished(h) ==
  \/ Over21(h.cards)
  \/ (h.actions # <<>> /\ Last(h.actions) = "stand")

\* the cards are a finished dealer hand: 17 or more, and below 17 before the
\* last card if any was drawn
DealerFinal(cards) ==
  /\ value(cards) >= 17
  /\ Len(cards) > 2 => value(SubSeq(cards, 1, Len(cards) - 1)) < 17

\* C19: in a round without natural the dealer draws only after every player
\* hand, split hands included, is finished, and no hand changes afterwards;
\* the dealer plays once, its log being one "hit" per drawn card and a single
\* final "stand", and does not change after it; it ends on 17 or more and was
\* below 17 before its last drawn card; and every record of the round carries
\* these same dealer cards.
C19_DealerPlaysOnceLast ==
  /\ [][(pc # "deal" /\ dealer' # dealer) =>
          /\ pc = "dealer"
          /\ hand_index = Len(hands)
          /\ \A i \in 1..Len(hands) : Finished(hands[i])]_vars
  /\ [][(pc \in {"dealer", "settle", "update"}) => hands' = hands]_vars
  /\ [][(pc \in {"settle", "update"}) =>
          dealer' = dealer /\ pc' # "dealer"]_vars
  /\ [](pc \in {"settle", "update"} =>
          /\ DealerFinal(dealer.cards)
          /\ Copies(dealer.actions, "stand") = 1
          /\ Last(dealer.actions) = "stand"
          /\ Copies(dealer.actions, "hit") = Len(dealer.cards) - 2)
  /\ [](pc = "update" =>
          \A i \in 1..Len(RoundRecords) :
            RoundRecords[i].dealer_cards = dealer.cards)
  /\ [](\A i \in 1..Len(results) :
          /\ ~NaturalRecord(results[i]) => DealerFinal(results[i].dealer_cards)
          /\ \A j \in 1..Len(results) :
               results[i].round_id = results[j].round_id =>
                 results[i].dealer_cards = results[j].dealer_cards)

\* a round with three or more hands, one of them over 21, is settled against
\* a dealer that drew two or more cards
C19_Witness ==
  /\ pc = "update"
  /\ Len(hands) >= 3
  /\ \E i \in 1..Len(hands) : Over21(hands[i].cards)
  /\ Len(dealer.cards) >= 4
  /\ \A i \in 1..Len(RoundRecords) :
       RoundRecords[i].dealer_cards = dealer.cards

\* C20: whatever the policy answers, every run of simulate_rounds ends: it
\* returns its results or is aborted by an exception.
C20_Terminates == <>(pc \in {"returned", "aborted"})

\* simulate_rounds has returned after a round with a split in which a hand
\* was hit twice or more
C20_Witness ==
  /\ pc = "returned"
  /\ \E i, j \in 1..Len(results) :
       /\ results[i].round_id = results[j].round_id
       /\ results[i].hand_number >= 2
       /\ Copies(results[j].actions, "hit") >= 2

\* the record r with its four end-of-round fields set to the engine's running
\* count, true count and shoe of the current state
WithEndFields(r) ==
  [r EXCEPT !.running_count_end = Round3(Frac(running_count, 1)),
            !.true_count_end = Round3(true_count_prev),
            !.cards_remaining = Len(shoe),
            !.decks_remaining = Round3(decks_remaining(shoe))]

\* C21: when a round has ended, each of its records carries the engine's
\* running count, true count, shoe size and decks left of that moment, so all
\* records of a round carry the same four values; the backfill changes
\* nothing but these four fields, and only in the records of its own round;
\* and a record of a finished round is never changed again.
C21_BackfillFrame ==
  /\ [](pc = "loop" =>
          \A i \in 1..Len(results) :
            results[i].round_id = round_id =>
              results[i] = WithEndFields(results[i]))
  /\ [](\A i, j \in 1..Len(results) :
          (results[i].round_id = results[j].round_id
             /\ (results[i].round_id < round_id \/ pc \in {"loop", "returned"}))
          => /\ results[i].running_count_end = results[j].running_count_end
             /\ results[i].true_count_end = results[j].true_count_end
             /\ results[i].cards_remaining = results[j].cards_remaining
             /\ results[i].decks_remaining = results[j].decks_remaining)
  /\ [][(pc = "update" /\ pc' = "loop") =>
          /\ Len(results') = Len(results)
          /\ \A i \in 1..Len(results) :
               IF results[i].round_id = round_id
               THEN results'[i] =
                      [results[i] EXCEPT
                         !.running_count_end = results'[i].running_count_end,
                         !.true_count_end = results'[i].true_count_end,
                         !.cards_remaining = results'[i].cards_remaining,
                         !.decks_remaining = results'[i].decks_remaining]
               ELSE results'[i] = results[i]]_vars
  /\ [][\A i \in 1..Len(results) :
          (results[i].round_id < round_id \/ pc \in {"loop", "returned"})
          => (Len(results') >= i /\ results'[i] = results[i])]_vars

\* a round with a split has just ended with a running count other than 0,
\* after an earlier round that ended with other counts and another shoe size
C21_Witness ==
  /\ pc = "loop"
  /\ running_count # 0
  /\ \E i, j, k \in 1..Len(results) :
       /\ results[i].round_id = round_id
       /\ results[j].round_id = round_id
       /\ results[i].hand_number = 1
       /\ results[j].hand_number = 2
       /\ results[j].cards_remaining = Len(shoe)
       /\ results[k].round_id < round_id
       /\ results[k].running_count_end # results[i].running_count_end
       /\ results[k].true_count_end # results[i].true_count_end
       /\ results[k].cards_remaining > Len(shoe)

\* a hand made by a split that the loop has not reached yet
Untouched(h) == h.actions = <<"split">> /\ Len(h.cards) = 2

RECURSIVE DrawsLogged(_)
\* the number of "hit" and "double" entries in the logs of a list of hands
DrawsLogged(hs) ==
  IF hs = <<>> THEN 0
  ELSE DrawsLogged(Rest(hs)) + Copies(Top(hs).actions, "hit")
         + Copies(Top(hs).actions, "double")

\* the splits of the round, counted from the cards it drew: every draw of the
\* round that is not of the deal, of a hit or double, or of the dealer
SplitsPerformed ==
  (Len(seen_this_round) - 4 - DrawsLogged(hands) - (Len(dealer.cards) - 2))
    \div 2

\* C22: a split answered for a two-card hand of equal ranks replaces that
\* hand, at its place, by a left and a right hand, each one card of the pair
\* plus one newly drawn card, with the bet of the split hand and the log
\* <<"split">>, unless the draw aborts the run; the loop goes on with the left
\* hand and the hands behind the current one stay untouched until every hand
\* before them is finished; only a split changes the number of hands, by one;
\* and a played round has 1 + (number of splits) records.
C22_SplitInPlace ==
  /\ [][(Consulted /\ action' = "split" /\ can_split(current)
           /\ pc' # "aborted") =>
          /\ Len(hands') = Len(hands) + 1
          /\ \A i \in 1..Len(hands) :
               /\ i <= hand_index => hands'[i] = hands[i]
               /\ i > hand_index + 1 => hands'[i + 1] = hands[i]
          /\ hand_index' = hand_index
          /\ hands'[hand_index + 1] =
               [cards |-> <<current.cards[1], shoe[Len(shoe)]>>,
                bet |-> current.bet, actions |-> <<"split">>,
                doubled |-> FALSE]
          /\ hands'[hand_index + 2] =
               [cards |-> <<current.cards[2], shoe[Len(shoe) - 1]>>,
                bet |-> current.bet, actions |-> <<"split">>,
                doubled |-> FALSE]
          /\ shoe' = SubSeq(shoe, 1, Len(shoe) - 2)]_vars
  /\ [][(Consulted /\ pc' # "aborted"
           /\ ~(action' = "split" /\ can_split(current)))
          => Len(hands') = Len(hands)]_vars
  /\ [][(pc = "dealt" /\ pc' = "player") => Len(hands') = 1]_vars
  /\ [][(pc \in {"player", "dealer", "settle", "update"} /\ ~Consulted)
          => hands' = hands]_vars
  /\ [](pc = "player" =>
          /\ Len(hands) >= 1
          /\ \A i \in 1..Len(hands) :
               /\ i <= hand_index => Finished(hands[i])
               /\ (i > hand_index + 1) => Untouched(hands[i]))
  /\ [](pc = "update" =>
          /\ Len(RoundRecords) = 1 + SplitsPerformed
          /\ RecordsOfRound(results, round_id) = 1 + SplitsPerformed)

\* the left hand of a split was split again and its left hand has been hit,
\* while the two hands behind it are untouched
C22_Witness ==
  /\ pc = "player"
  /\ hand_index = 0
  /\ Len(hands) >= 3
  /\ hands[1].actions = <<"split", "hit">>
  /\ Untouched(hands[2])
  /\ Untouched(hands[3])
  /\ SplitsPerformed = 2

\* the Hi-Lo weight of a rank: +1 for 2-6, 0 for 7-9, -1 for 10, J, Q, K, A
Weight(r) ==
  IF r \in {"2", "3", "4", "5", "6"} THEN 1
  ELSE IF r \in {"7", "8", "9"} THEN 0
  ELSE -1

RECURSIVE WeightSum(_)
WeightSum(cards) ==
  IF cards = <<>> THEN 0 ELSE WeightSum(Rest(cards)) + Weight(Top(cards))

\* C23: when a round has ended, the running count is the sum of the Hi-Lo
\* weights of the cards drawn since the last reshuffle, each counted once, as
\* the hands and records hold them, which is the negative of the sum of the
\* weights of the cards still in the shoe; and the round's records report it
\* as running_count_end.
C23_RunningCountIsDrawnWeights ==
  pc = "loop" =>
    /\ running_count = WeightSum(DrawnSinceReshuffle)
    /\ running_count = -WeightSum(shoe)
    /\ \A i \in 1..Len(results) :
         results[i].round_id = round_id =>
           results[i].running_count_end = 1000 * running_count

\* the second round played from a second load has ended, a round with a
\* split, with a running count other than 0
C23_Witness ==
  /\ pc = "loop"
  /\ shuffle_count = 2
  /\ round_id > FirstRoundOfLoad
  /\ running_count # 0
  /\ Len(DrawnSinceReshuffle) >= 12
  /\ \E i \in 1..Len(results) :
       results[i].round_id = round_id /\ results[i].hand_number = 2

\* the size of the shoe at the start of round k, after the reshuffle if there
\* was one, read from the records: a full load in round 1 and after a round
\* that left the shoe at or below the threshold, else what the records of
\* round k - 1 report
StartSize(k) ==
  LET prev == {i \in 1..Len(results) : results[i].round_id = k - 1}
  IN  IF prev = {} \/ \E i \in prev : ReshuffleFollows(results[i])
      THEN num_decks * DeckSize
      ELSE (results[CHOOSE i \in prev : TRUE]).cards_remaining

\* the number of cards in the records of round k: the player cards of every
\* record and the dealer's cards once
CardsInRecords(k) ==
  Len(RecordCards(SelectSeq(results, LAMBDA r : r.round_id = k), 1))

\* the cards the shoe has lost in the round being played: the part of the
\* load between the shoe as it is and the shoe as the round found it
LostThisRound ==
  SubSeq(Shuffled(seed, num_decks, shuffle_count),
         Len(shoe) + 1, StartSize(round_id))

\* C24: the cards the shoe loses during a round are, rank by rank, the cards
\* held by the hands of the round, player hands and dealer, at every moment
\* of the round, so no drawn card is lost or held twice and a split keeps
\* both cards of the pair once; and when a round has ended, the loss of the
\* shoe that its records report is the number of player cards in all its
\* records plus the number of its dealer cards, counted once.
C24_CardConservation ==
  /\ (pc \in {"dealt", "player", "dealer", "settle"}) =>
       LET lost == LostThisRound
           held == InPlay
       IN  /\ Len(lost) = Len(held)
           /\ \A r \in RankSet : Copies(lost, r) = Copies(held, r)
  /\ pc = "update" =>
       LET lost == LostThisRound
           held == RecordCards(RoundRecords, round_id)
       IN  /\ Len(lost) = Len(held)
           /\ \A r \in RankSet : Copies(lost, r) = Copies(held, r)
           /\ \A i \in 1..Len(hands) :
                RoundRecords[i].player_cards = hands[i].cards
  /\ (pc = "loop" /\ round_id >= 1) =>
       StartSize(round_id) - Last(results).cards_remaining
         = CardsInRecords(round_id)

\* a round that did not start from a full load is about to end with three
\* hands and a dealer that drew, ten or more cards lost by the shoe
C24_Witness ==
  /\ pc = "settle"
  /\ StartSize(round_id) < num_decks * DeckSize
  /\ Len(hands) >= 3
  /\ Len(dealer.cards) >= 3
  /\ Len(LostThisRound) >= 10
  /\ Len(LostThisRound) = Len(InPlay)
====
